---- MODULE Spec2Model ----
(***************************************************************************)
(* WasteLess API (src/main.py): the food-stock store, the request handlers *)
(* that consolidate, consume and delete stock lots, the expiry window      *)
(* query and the recipe feasibility matcher.                               *)
(*                                                                         *)
(* The Supabase tables are modelled as sets / sequences of rows, each      *)
(* .execute() call as one atomic store operation.  Quantities are floats   *)
(* in the program; the model uses integers (whole units), on which the     *)
(* program's + and - are exact.                                            *)
(***************************************************************************)
EXTENDS Integers, Sequences, FiniteSets, TLC

VARIABLES food_stock,          \* table food_stock: set of rows
          nextId,              \* next serial id of food_stock
          recipes,             \* table recipes: sequence of rows (retrieval order)
          recipe_ingredients,  \* table recipe_ingredients: sequence of rows
          response,            \* the last request and what the handler returned
          procs,               \* in-flight requests (interleaved specification)
          base                 \* store at the last quiescent point (interleaved)

vars == <<food_stock, nextId, recipes, recipe_ingredients, response, procs, base>>

(************************** bounds of the model ***************************)
MaxId == 2          \* food_stock rows ever inserted
MaxRecipes == 2     \* recipes ever saved
MaxIngredients == 2 \* ingredients of one recipe payload
MaxDays == 1        \* largest "days" of an expiry query

Users == {1, 2}
\* Raw names as sequences of characters: two spellings of one item, one other.
Names == { <<"M">>, <<" ", "m">>, <<"e">> }
\* FoodItemCreate.quantity and FoodItemConsume.quantity are unconstrained floats
AddQuantities == {0, 1, 2}
ConsumeQuantities == {0 - 1, 0, 1, 2}
StoredQuantities == 0..2

(******************************* dates ************************************)
\* date.today(); a day of 2025 by its ordinal in the year (304 = 31 October)
Today == 304
MonthLengths == <<31, 28, 31, 30, 31, 30, 31, 31, 30, 31, 30, 31>>

RECURSIVE DaysBefore(_)
DaysBefore(m) == IF m <= 1 THEN 0 ELSE DaysBefore(m - 1) + MonthLengths[m - 1]

\* str(date): the ISO form YYYY-MM-DD, as its three zero-padded fields
IsoOf(d) ==
    LET m == CHOOSE k \in 1..12 : DaysBefore(k) < d /\ d <= DaysBefore(k) + MonthLengths[k]
    IN  <<2025, m, d - DaysBefore(m)>>
IsoTable == [d \in (Today - 3)..(Today + MaxDays + 3) |-> IsoOf(d)]
IsoStr(d) == IsoTable[d]

\* the store's comparison of two ISO dates (field by field, left to right)
IsoLeq(a, b) ==
    \/ a[1] < b[1]
    \/ a[1] = b[1] /\ a[2] < b[2]
    \/ a[1] = b[1] /\ a[2] = b[2] /\ a[3] <= b[3]

(************************** name normalizer *******************************)
IsSpace(c) == c = " "
LowerChar(c) == CASE c = "M" -> "m" [] c = "E" -> "e" [] OTHER -> c

RECURSIVE LStrip(_)
LStrip(s) == IF s # <<>> /\ IsSpace(Head(s)) THEN LStrip(Tail(s)) ELSE s

RECURSIVE RStrip(_)
RStrip(s) == IF s # <<>> /\ IsSpace(s[Len(s)]) THEN RStrip(SubSeq(s, 1, Len(s) - 1)) ELSE s

Strip(s) == RStrip(LStrip(s))
Lower(s) == [i \in 1..Len(s) |-> LowerChar(s[i])]

NormTable == [s \in Names |-> Lower(Strip(s))]
normalize_name(s) == NormTable[s]

(*************************** store helpers ********************************)
NoRow == [id |-> 0]

\* the rows a food_stock query on the composite key selects
find_matches_raw_name(stock, user_id, name, unit, expiration_date) ==
    { r \in stock : /\ r.user_id = user_id
                    /\ r.name_norm = name
                    /\ r.unit = unit
                    /\ r.expiration_date = IsoStr(expiration_date) }
find_matches(stock, user_id, name, unit, expiration_date) ==
    { r \in stock : /\ r.user_id = user_id
                    /\ r.name_norm = normalize_name(name)
                    /\ r.unit = unit
                    /\ r.expiration_date = IsoStr(expiration_date) }

\* .limit(1): any one of the selected rows, or none
find_existing_food_row(stock, user_id, name, unit, expiration_date) ==
    LET m == find_matches(stock, user_id, name, unit, expiration_date)
    IN  IF m = {} THEN {NoRow} ELSE m

get_food_item_detail_any_user(stock, user_id, item_id) ==
    LET m == { r \in stock : r.id = item_id }
    IN  IF m = {} THEN NoRow ELSE CHOOSE r \in m : TRUE
get_food_item_detail(stock, user_id, item_id) ==
    LET m == { r \in stock : r.user_id = user_id /\ r.id = item_id }
    IN  IF m = {} THEN NoRow ELSE CHOOSE r \in m : TRUE

\* update({"quantity": q}).eq("id", id).eq("user_id", user_id)
UpdateQuantity(stock, id, user_id, q) ==
    { IF r.id = id /\ r.user_id = user_id THEN [r EXCEPT !.quantity = q] ELSE r
      : r \in stock }

\* delete().eq("id", id).eq("user_id", user_id)
DeleteRow(stock, id, user_id) ==
    { r \in stock : ~(r.id = id /\ r.user_id = user_id) }

\* delete().eq("user_id", user_id)
delete_user_food_from_db(stock, user_id) ==
    { r \in stock : r.user_id # user_id }

NewFoodRow(id, user_id, item) ==
    [id |-> id, user_id |-> user_id, name |-> item.name,
     name_norm |-> normalize_name(item.name), quantity |-> item.quantity,
     unit |-> item.unit, expiration_date |-> IsoStr(item.expiration_date)]

\* the write of add_or_update_food_item, given the row its lookup returned:
\* the new table, the next id, the status and the rows the store returns
add_write_replace(stock, nid, existing, user_id, item) ==
    IF existing # NoRow
    THEN LET new == UpdateQuantity(stock, existing.id, user_id, item.quantity)
         IN  [stock |-> new, nid |-> nid, status |-> "updated",
              data |-> { r \in new : r.id = existing.id /\ r.user_id = user_id }]
    ELSE [stock |-> stock \cup {NewFoodRow(nid, user_id, item)}, nid |-> nid + 1,
          status |-> "created", data |-> {NewFoodRow(nid, user_id, item)}]
add_write(stock, nid, existing, user_id, item) ==
    IF existing # NoRow
    THEN LET new_qty == existing.quantity + item.quantity
             new == UpdateQuantity(stock, existing.id, user_id, new_qty)
         IN  [stock |-> new, nid |-> nid, status |-> "updated",
              data |-> { r \in new : r.id = existing.id /\ r.user_id = user_id }]
    ELSE [stock |-> stock \cup {NewFoodRow(nid, user_id, item)}, nid |-> nid + 1,
          status |-> "created", data |-> {NewFoodRow(nid, user_id, item)}]

\* the write of consume_item, given the row its lookup returned
consume_write_strict(stock, item, user_id, item_id, quantity) ==
    LET new_qty == item.quantity - quantity
    IN  IF new_qty < 0
        THEN [stock |-> DeleteRow(stock, item_id, user_id),
              message |-> "Item consumed and removed", data |-> {}]
        ELSE LET new == UpdateQuantity(stock, item_id, user_id, new_qty)
             IN  [stock |-> new, message |-> "Item quantity updated",
                  data |-> { r \in new : r.id = item_id /\ r.user_id = user_id }]
consume_write(stock, item, user_id, item_id, quantity) ==
    LET new_qty == item.quantity - quantity
    IN  IF new_qty <= 0
        THEN [stock |-> DeleteRow(stock, item_id, user_id),
              message |-> "Item consumed and removed", data |-> {}]
        ELSE LET new == UpdateQuantity(stock, item_id, user_id, new_qty)
             IN  [stock |-> new, message |-> "Item quantity updated",
                  data |-> { r \in new : r.id = item_id /\ r.user_id = user_id }]

InCap(q) == q \in StoredQuantities

Item(name, quantity, unit, expiration_date) ==
    [name |-> name, quantity |-> quantity, unit |-> unit,
     expiration_date |-> expiration_date]

NoItem == Item(<<>>, 0, "", 0)

\* what a handler was asked and what it returned: the request's fields that
\* apply, the status code, the message, and the rows, listing or suggestions of
\* the body
Resp(op, user_id, status, message) ==
    [op |-> op, user_id |-> user_id, status |-> status, message |-> message,
     item |-> NoItem, item_id |-> 0, quantity |-> 0, days |-> 0,
     rows |-> {}, items |-> <<>>, suggestions |-> [suggestions |-> <<>>]]

\* the handler raises before it reads the body
Denied(op, user_id) == Resp(op, user_id, 403, "Access denied")

\* request bodies of the consolidation specification: one item, respelled, and
\* changed in each component of the composite key in turn
StockItems ==
    { Item(k[1], q, k[2], k[3]) :
        k \in { << <<"M">>, "kg", Today >>, << <<" ", "m">>, "kg", Today >>,
                << <<"e">>, "kg", Today >>, << <<"M">>, "l", Today >>,
                << <<"M">>, "kg", Today + 1 >> },
        q \in AddQuantities }

\* the reports of the consolidation specification: user 1 reports every item,
\* user 2 the first item in both spellings
StockReports ==
    { <<1, item>> : item \in StockItems }
      \cup { <<2, item>> : item \in { i \in StockItems :
                                        i.unit = "kg" /\ i.expiration_date = Today
                                        /\ i.name # <<"e">> } }

(************************* handlers, one at a time ************************)
\* POST /users/{user_id}/food; the message f"Item {status}" is kept as its
\* status word, "updated" or "created"
add_food_item(cur, user_id, item) ==
    /\ UNCHANGED <<recipes, recipe_ingredients, procs, base>>
    /\ IF cur # user_id
       THEN /\ response' = Denied("add", user_id)
            /\ UNCHANGED <<food_stock, nextId>>
       ELSE \E existing \in find_existing_food_row(food_stock, user_id, item.name,
                                                   item.unit, item.expiration_date) :
              LET w == add_write(food_stock, nextId, existing, user_id, item) IN
              /\ w.nid <= MaxId + 1
              /\ \A r \in w.stock : InCap(r.quantity)
              /\ food_stock' = w.stock
              /\ nextId' = w.nid
              /\ response' = [Resp("add", user_id, 200, w.status)
                                 EXCEPT !.item = item, !.rows = w.data]

\* POST /users/{user_id}/food/{item_id}/consume
consume_item(cur, user_id, item_id, quantity) ==
    /\ UNCHANGED <<nextId, recipes, recipe_ingredients, procs, base>>
    /\ IF cur # user_id
       THEN /\ response' = Denied("consume", user_id)
            /\ UNCHANGED food_stock
       ELSE LET item == get_food_item_detail(food_stock, user_id, item_id) IN
            IF item = NoRow
            THEN /\ response' = [Resp("consume", user_id, 404, "Item not found")
                                    EXCEPT !.item_id = item_id, !.quantity = quantity]
                 /\ UNCHANGED food_stock
            ELSE LET w == consume_write(food_stock, item, user_id, item_id, quantity) IN
                 /\ \A r \in w.stock : InCap(r.quantity)
                 /\ food_stock' = w.stock
                 /\ response' = [Resp("consume", user_id, 200, w.message)
                                    EXCEPT !.item_id = item_id, !.quantity = quantity,
                                           !.rows = w.data]

\* DELETE /users/{user_id}/food/{item_id}
delete_item(cur, user_id, item_id) ==
    /\ UNCHANGED <<nextId, recipes, recipe_ingredients, procs, base>>
    /\ IF cur # user_id
       THEN /\ response' = Denied("delete", user_id)
            /\ UNCHANGED food_stock
       ELSE /\ food_stock' = DeleteRow(food_stock, item_id, user_id)
            /\ response' = [Resp("delete", user_id, 200, "Item deleted")
                               EXCEPT !.item_id = item_id]

\* DELETE /users/{user_id}/food
delete_user_food(cur, user_id) ==
    /\ UNCHANGED <<nextId, recipes, recipe_ingredients, procs, base>>
    /\ IF cur # user_id
       THEN /\ response' = Denied("deleteAll", user_id)
            /\ UNCHANGED food_stock
       ELSE /\ food_stock' = delete_user_food_from_db(food_stock, user_id)
            /\ response' = Resp("deleteAll", user_id, 200, "All food items deleted")

(*************************** expiry window *******************************)
\* the rows of the range query of expiring_items:
\* .eq(user_id).gte(expiration_date, str(today)).lte(expiration_date, str(until))
expiring_rows_exclusive(stock, user_id, today, days) ==
    { r \in stock : /\ r.user_id = user_id
                    /\ IsoLeq(IsoStr(today), r.expiration_date)
                    /\ IsoLeq(r.expiration_date, IsoStr(today + days))
                    /\ r.expiration_date # IsoStr(today + days) }
expiring_rows(stock, user_id, today, days) ==
    { r \in stock : /\ r.user_id = user_id
                    /\ IsoLeq(IsoStr(today), r.expiration_date)
                    /\ IsoLeq(r.expiration_date, IsoStr(today + days)) }

\* .order("expiration_date", desc=False): every listing of the rows in
\* ascending order of the column (rows of equal date in any order)
OrderedByExpiration(rows) ==
    { s \in [1..Cardinality(rows) -> rows] :
        /\ \A i, j \in DOMAIN s : i # j => s[i] # s[j]
        /\ \A i, j \in DOMAIN s :
              i < j => IsoLeq(s[i].expiration_date, s[j].expiration_date) }

\* GET /users/{user_id}/food/expiring
expiring_items(cur, user_id, days) ==
    /\ UNCHANGED <<food_stock, nextId, recipes, recipe_ingredients, procs, base>>
    /\ IF cur # user_id
       THEN response' = Denied("expiring", user_id)
       ELSE \E items \in OrderedByExpiration(expiring_rows(food_stock, user_id, Today, days)) :
              response' = [Resp("expiring", user_id, 200, "")
                             EXCEPT !.days = days, !.items = items]

(**************************** recipes *************************************)
\* one row of recipe_ingredients, as save_recipe builds it
ingredient_row(recipe_id, ing) ==
    [recipe_id |-> recipe_id, name |-> ing.name, name_norm |-> normalize_name(ing.name),
     quantity |-> ing.quantity, unit |-> ing.unit]

\* payload.description or ""
DescriptionOrEmpty(d) == IF d = "None" THEN "" ELSE d

\* POST /users/{user_id}/recipes
save_recipe(cur, user_id, payload) ==
    /\ UNCHANGED <<food_stock, nextId, procs, base>>
    /\ IF cur # user_id
       THEN /\ response' = Denied("save", user_id)
            /\ UNCHANGED <<recipes, recipe_ingredients>>
       ELSE LET recipe_id == Len(recipes) + 1
                recipe == [id |-> recipe_id, user_id |-> user_id, title |-> payload.title,
                           description |-> DescriptionOrEmpty(payload.description)]
                ingredient_rows == [i \in 1..Len(payload.ingredients) |->
                                      ingredient_row(recipe_id, payload.ingredients[i])]
            IN  /\ recipe_id <= MaxRecipes
                /\ recipes' = Append(recipes, recipe)
                /\ recipe_ingredients' = recipe_ingredients \o ingredient_rows
                /\ response' = [Resp("save", user_id, 200, "Recipe saved")
                                   EXCEPT !.item_id = recipe_id, !.items = ingredient_rows]

\* select("*").eq(column, value) on a table kept as a sequence
SelectEq(table, column, value) == SelectSeq(table, LAMBDA row : row[column] = value)

\* the inner loop of compute_recipe_suggestions over one recipe's ingredients:
\* the pair <<missing_ingredients, can_make_recipe>> after the rows from i on
RECURSIVE CheckIngredients(_, _, _, _, _)
CheckIngredients(rows, i, user_food_items, missing, can_make) ==
    IF i > Len(rows) THEN <<missing, can_make>>
    ELSE IF rows[i].name_norm \notin user_food_items
         THEN CheckIngredients(rows, i + 1, user_food_items,
                               Append(missing, rows[i].name), FALSE)
         ELSE CheckIngredients(rows, i + 1, user_food_items, missing, can_make)

\* the body of the loop over the recipes: what one recipe appends to suggested_recipes
suggestion_for_all_missing(recipe, rows, user_food_items) ==
    LET chk == CheckIngredients(rows, 1, user_food_items, <<>>, TRUE)
    IN  IF rows = <<>> THEN <<>>
        ELSE IF chk[2]
        THEN << [title |-> recipe.title, description |-> recipe.description,
                 ingredients |-> [i \in 1..Len(rows) |-> rows[i].name]] >>
        ELSE << [title |-> recipe.title, description |-> recipe.description,
                 missing_ingredients |-> [i \in 1..Len(rows) |-> rows[i].name]] >>
suggestion_for(recipe, rows, user_food_items) ==
    LET chk == CheckIngredients(rows, 1, user_food_items, <<>>, TRUE)
    IN  IF rows = <<>> THEN <<>>
        ELSE IF chk[2]
        THEN << [title |-> recipe.title, description |-> recipe.description,
                 ingredients |-> [i \in 1..Len(rows) |-> rows[i].name]] >>
        ELSE IF chk[1] # <<>>
        THEN << [title |-> recipe.title, description |-> recipe.description,
                 missing_ingredients |-> chk[1]] >>
        ELSE <<>>

RECURSIVE SuggestLoop(_, _, _, _, _)
SuggestLoop(rs, i, ingredients, user_food_items, suggested_recipes) ==
    IF i > Len(rs) THEN suggested_recipes
    ELSE SuggestLoop(rs, i + 1, ingredients, user_food_items,
                     suggested_recipes \o
                       suggestion_for(rs[i], SelectEq(ingredients, "recipe_id", rs[i].id),
                                      user_food_items))

compute_recipe_suggestions(stock, rcps, ingredients, user_id) ==
    LET user_food_items == { r.name_norm : r \in { x \in stock : x.user_id = user_id } }
        rs == SelectEq(rcps, "user_id", user_id)
    IN  IF rs = <<>> THEN [suggestions |-> <<>>]
        ELSE [suggestions |-> SuggestLoop(rs, 1, ingredients, user_food_items, <<>>)]

\* GET /users/{user_id}/recipes/suggest
suggest_recipes(cur, user_id) ==
    /\ UNCHANGED <<food_stock, nextId, recipes, recipe_ingredients, procs, base>>
    /\ IF cur # user_id
       THEN response' = Denied("suggest", user_id)
       ELSE response' = [Resp("suggest", user_id, 200, "")
                           EXCEPT !.suggestions = compute_recipe_suggestions(
                                    food_stock, recipes, recipe_ingredients, user_id)]

(****************** handlers as interleaved store calls *******************)
\* Two requests in flight (sync handlers run on FastAPI's thread pool).  A
\* request is past its access check; each .execute() is one step.
Procs == {1, 2}

Idle == [pc |-> "idle", op |-> "none", user_id |-> 0, item |-> NoItem, item_id |-> 0,
         quantity |-> 0, row |-> NoRow, result |-> ""]

begin_add(p, user_id, item) ==
    /\ procs[p].pc = "idle"
    /\ procs' = [procs EXCEPT ![p] = [Idle EXCEPT !.pc = "add_find", !.op = "add",
                                        !.user_id = user_id, !.item = item]]
    /\ UNCHANGED <<food_stock, nextId, recipes, recipe_ingredients, response, base>>

begin_consume(p, user_id, item_id, quantity) ==
    /\ procs[p].pc = "idle"
    /\ procs' = [procs EXCEPT ![p] = [Idle EXCEPT !.pc = "consume_get", !.op = "consume",
                                        !.user_id = user_id, !.item_id = item_id,
                                        !.quantity = quantity]]
    /\ UNCHANGED <<food_stock, nextId, recipes, recipe_ingredients, response, base>>

\* add_or_update_food_item, first call: find_existing_food_row
add_find(p) ==
    /\ procs[p].pc = "add_find"
    /\ \E existing \in find_existing_food_row(food_stock, procs[p].user_id,
                           procs[p].item.name, procs[p].item.unit,
                           procs[p].item.expiration_date) :
          procs' = [procs EXCEPT ![p].pc = "add_write", ![p].row = existing]
    /\ UNCHANGED <<food_stock, nextId, recipes, recipe_ingredients, response, base>>

\* add_or_update_food_item, second call: the update or the insert
add_store(p) ==
    /\ procs[p].pc = "add_write"
    /\ LET w == add_write(food_stock, nextId, procs[p].row, procs[p].user_id,
                          procs[p].item) IN
       /\ w.nid <= MaxId + 1
       /\ \A r \in w.stock : InCap(r.quantity)
       /\ food_stock' = w.stock
       /\ nextId' = w.nid
       /\ procs' = [procs EXCEPT ![p].pc = "done", ![p].result = w.status]
    /\ UNCHANGED <<recipes, recipe_ingredients, response, base>>

\* consume_item, first call: get_food_item_detail
consume_get(p) ==
    /\ procs[p].pc = "consume_get"
    /\ LET item == get_food_item_detail(food_stock, procs[p].user_id, procs[p].item_id) IN
       procs' = IF item = NoRow
                THEN [procs EXCEPT ![p].pc = "done", ![p].result = "Item not found"]
                ELSE [procs EXCEPT ![p].pc = "consume_write", ![p].row = item]
    /\ UNCHANGED <<food_stock, nextId, recipes, recipe_ingredients, response, base>>

\* consume_item, second call: the delete or the update
consume_store(p) ==
    /\ procs[p].pc = "consume_write"
    /\ LET w == consume_write(food_stock, procs[p].row, procs[p].user_id,
                              procs[p].item_id, procs[p].quantity) IN
       /\ \A r \in w.stock : InCap(r.quantity)
       /\ food_stock' = w.stock
       /\ procs' = [procs EXCEPT ![p].pc = "done", ![p].result = w.message]
    /\ UNCHANGED <<nextId, recipes, recipe_ingredients, response, base>>

\* delete_item: its single store call
delete_store(p, user_id, item_id) ==
    /\ procs[p].pc = "idle"
    /\ food_stock' = DeleteRow(food_stock, item_id, user_id)
    /\ procs' = [procs EXCEPT ![p] = [Idle EXCEPT !.pc = "done", !.op = "delete",
                                        !.user_id = user_id, !.item_id = item_id,
                                        !.result = "Item deleted"]]
    /\ UNCHANGED <<nextId, recipes, recipe_ingredients, response, base>>

\* every request has returned: the next round starts from the store as it is
Quiescent == /\ \A p \in Procs : procs[p].pc \in {"idle", "done"}
             /\ \E p \in Procs : procs[p].pc = "done"

quiesce ==
    /\ Quiescent
    /\ procs' = [p \in Procs |-> Idle]
    /\ base' = [stock |-> food_stock, nid |-> nextId]
    /\ UNCHANGED <<food_stock, nextId, recipes, recipe_ingredients, response>>

Init ==
    /\ food_stock = {}
    /\ nextId = 1
    /\ recipes = <<>>
    /\ recipe_ingredients = <<>>
    /\ response = Resp("none", 0, 0, "")
    /\ procs = [p \in Procs |-> Idle]
    /\ base = [stock |-> {}, nid |-> 1]

\* requests of the authenticated user for the user's own inventory (another
\* user's lots can still be named by id)
Next ==
    \/ \E rep \in StockReports : add_food_item(rep[1], rep[1], rep[2])
    \/ \E u \in Users, id \in 1..MaxId, q \in ConsumeQuantities : consume_item(u, u, id, q)
    \/ \E u \in Users, id \in 1..MaxId : delete_item(u, u, id)
    \/ \E u \in Users : delete_user_food(u, u)

Spec == Init /\ [][Next]_vars

(************************ expiry specification ****************************)
ExpiryItems == { Item(<<"M">>, 1, "kg", d) : d \in (Today - 1)..(Today + MaxDays + 1) }

\* cur is the user of the token, u the user of the path
NextExpiry ==
    \/ \E cur \in Users, u \in Users, item \in ExpiryItems : add_food_item(cur, u, item)
    \/ \E cur \in Users, u \in Users, id \in 1..MaxId : delete_item(cur, u, id)
    \/ \E cur \in Users, u \in Users, days \in (0 - 1)..MaxDays :
          expiring_items(cur, u, days)

SpecExpiry == Init /\ [][NextExpiry]_vars

(************************ matcher specification ***************************)
\* Pantries hold "M" and "e", in kg; recipes ask for " m" (the same item as
\* "M") and "e", in litres and in a larger quantity.  User 1 reports and saves
\* everything, user 2 one item and one recipe.
PantryReports ==
    { <<1, Item(<<"M">>, 2, "kg", Today)>>, <<1, Item(<<"e">>, 1, "kg", Today)>>,
      <<2, Item(<<"e">>, 2, "kg", Today)>> }
Ingredients == { Item(n, 3, "l", Today) : n \in { <<" ", "m">>, <<"e">> } }
IngredientLists == UNION { [1..n -> Ingredients] : n \in 0..MaxIngredients }
Payload(title, description, ingredients) ==
    [title |-> title, description |-> description, ingredients |-> ingredients]
RecipeSaves ==
    { <<1, Payload("A", "None", l)>> : l \in IngredientLists }
      \cup { <<2, Payload("B", "with e", << Item(<<"e">>, 3, "l", Today) >>)>> }

NextRecipes ==
    \/ \E rep \in PantryReports : add_food_item(rep[1], rep[1], rep[2])
    \/ \E sv \in RecipeSaves : save_recipe(sv[1], sv[1], sv[2])
    \/ delete_user_food(1, 1)
    \/ \E u \in Users : suggest_recipes(u, u)

SpecRecipes == Init /\ [][NextRecipes]_vars

(********************** interleaved specification *************************)
ConcItems == { Item(n, q, "kg", Today) : n \in { <<"M">>, <<" ", "m">> }, q \in {1, 2} }

NextConc ==
    \/ \E p \in Procs, item \in ConcItems : begin_add(p, 1, item)
    \/ \E p \in Procs : add_find(p)
    \/ \E p \in Procs : add_store(p)
    \/ \E p \in Procs, id \in 1..MaxId, q \in {1, 2} : begin_consume(p, 1, id, q)
    \/ \E p \in Procs : consume_get(p)
    \/ \E p \in Procs : consume_store(p)
    \/ \E p \in Procs, id \in 1..MaxId : delete_store(p, 1, id)
    \/ quiesce

SpecConc == Init /\ [][NextConc]_vars

(***************************************************************************)
(*                              Properties                                 *)
(***************************************************************************)
KeyOf(r) == <<r.user_id, r.name_norm, r.unit, r.expiration_date>>
LotsOfKey(stock, user_id, item) ==
    { r \in stock : KeyOf(r) = <<user_id, normalize_name(item.name), item.unit,
                                 IsoStr(item.expiration_date)>> }
WithQuantity(lot, q) == [lot EXCEPT !.quantity = q]
Ok(op) == response'.op = op /\ response'.status = 200

\* C1: from the empty store, with requests handled one at a time, no two
\* stock lots share the composite key (user_id, name_norm, unit, expiration_date).
C1_OneLotPerKey ==
    \A r1, r2 \in food_stock : KeyOf(r1) = KeyOf(r2) => r1 = r2

\* C1 witness: a report under another spelling was merged into the existing lot
\* while a second lot of another key is in the store.
C1_Witness ==
    /\ response.op = "add" /\ response.message = "updated"
    /\ Cardinality(food_stock) = 2
    /\ \E r \in response.rows : r.name # response.item.name

\* C3 (as claimed): every stored stock lot has a quantity > 0.
C3_QuantityPositive ==
    \A r \in food_stock : r.quantity > 0

\* C4: an accepted add for a key that has a lot adds the quantity to that lot,
\* creates nothing, leaves every other lot alone and answers "updated" (merged);
\* for a key without a lot it inserts exactly one new lot with the quantity, the
\* display name and the normalized name, and answers "created".  Reporting the
\* item a second time right after it was created answers "updated" and leaves
\* one lot of the key, holding twice the quantity.
C4_AddOrMerge ==
    [][ /\ Ok("add") =>
           LET item == response'.item
               found == LotsOfKey(food_stock, response'.user_id, item)
           IN  IF found # {}
               THEN /\ response'.message = "updated"
                    /\ \E e \in found :
                         /\ food_stock' = (food_stock \ {e})
                                \cup {WithQuantity(e, e.quantity + item.quantity)}
                         /\ response'.rows = {WithQuantity(e, e.quantity + item.quantity)}
                    /\ Cardinality(food_stock') = Cardinality(food_stock)
                    /\ nextId' = nextId
               ELSE /\ response'.message = "created"
                    /\ \E new \in food_stock' \ food_stock :
                         /\ food_stock' = food_stock \cup {new}
                         /\ new.id \notin { r.id : r \in food_stock }
                         /\ new.user_id = response'.user_id
                         /\ new.name = item.name
                         /\ new.name_norm = normalize_name(item.name)
                         /\ new.quantity = item.quantity
                         /\ new.unit = item.unit
                         /\ new.expiration_date = IsoStr(item.expiration_date)
        /\ ( /\ response.op = "add" /\ response.status = 200
             /\ response.message = "created"
             /\ Ok("add")
             /\ response'.user_id = response.user_id
             /\ response'.item = response.item )
           => /\ response'.message = "updated"
              /\ \E lot \in food_stock' :
                   /\ LotsOfKey(food_stock', response'.user_id, response'.item) = {lot}
                   /\ lot.quantity = 2 * response'.item.quantity
      ]_vars

\* C4 witness: the item reported with quantity 1 a second time was merged into
\* its lot, which now holds 2.
C4_Witness ==
    /\ response.op = "add" /\ response.message = "updated"
    /\ response.item.quantity = 1
    /\ \E r \in response.rows : r.quantity = 2 /\ r.name = response.item.name

\* C5: consume(q) on a lot of the user holding Q deletes the lot and answers
\* "removed" when q >= Q, and otherwise leaves it with exactly Q - q and returns
\* it; no other lot is created, changed or deleted.
C5_Consume ==
    [][ ( /\ response'.op = "consume" /\ response'.status # 403
          /\ \E e \in food_stock : e.id = response'.item_id /\ e.user_id = response'.user_id )
        => /\ response'.status = 200
           /\ \E e \in food_stock :
                /\ e.id = response'.item_id /\ e.user_id = response'.user_id
                /\ IF response'.quantity >= e.quantity
                   THEN /\ food_stock' = food_stock \ {e}
                        /\ response'.message = "Item consumed and removed"
                   ELSE /\ food_stock' = (food_stock \ {e})
                               \cup {WithQuantity(e, e.quantity - response'.quantity)}
                        /\ response'.rows = {WithQuantity(e, e.quantity - response'.quantity)}
                        /\ response'.message = "Item quantity updated"
      ]_vars

\* C5 witness: a lot that held 2 was consumed by 1 and stays with 1, beside
\* another lot.
C5_Witness ==
    /\ response.op = "consume" /\ response.message = "Item quantity updated"
    /\ response.quantity = 1
    /\ \E r \in response.rows : r.quantity = 1 /\ r \in food_stock
    /\ Cardinality(food_stock) = 2

\* C6 (as claimed): a consume request with quantity <= 0 is rejected (never
\* answered 200) and leaves the store unchanged.
C6_ConsumeRejectsNonPositive ==
    [][ ( /\ response'.op = "consume" /\ response'.status # 403
          /\ response'.quantity <= 0 )
        => response'.status # 200 /\ food_stock' = food_stock ]_vars

\* C7: a consume of a lot id that is absent or belongs to another user answers
\* 404 (not found) and leaves the store unchanged; and no add, consume,
\* delete-item or deleteAll for one user changes, removes or adds a lot of
\* another user.
C7_UserIsolation ==
    [][ /\ ( /\ response'.op = "consume" /\ response'.status # 403
             /\ ~ \E e \in food_stock :
                    e.id = response'.item_id /\ e.user_id = response'.user_id )
           => /\ response'.status = 404
              /\ food_stock' = food_stock /\ nextId' = nextId
        /\ response'.op \in {"add", "consume", "delete", "deleteAll"}
           => { r \in food_stock' : r.user_id # response'.user_id }
                = { r \in food_stock : r.user_id # response'.user_id }
      ]_vars

\* C7 witness: a consume for one user named a lot of the other user and was
\* answered 404, the lot still in the store.
C7_Witness ==
    /\ response.op = "consume" /\ response.status = 404
    /\ \E r \in food_stock : r.id = response.item_id /\ r.user_id # response.user_id

\* the day of the year an ISO date stands for
OrdinalOf(iso) == CHOOSE d \in DOMAIN IsoTable : IsoTable[d] = iso

IngredientsOf(recipe_id) ==
    SelectSeq(recipe_ingredients, LAMBDA row : row.recipe_id = recipe_id)
DisplayNames(rows) == [i \in 1..Len(rows) |-> rows[i].name]

\* C9: the suggestions answer holds, in the order of the recipes table, one
\* entry per recipe of the user that has an ingredient and none for a recipe
\* without ingredients; the entry lists all ingredient names (feasible) when
\* every ingredient's normalized name is the name_norm of some lot of the user,
\* whatever quantity or unit; otherwise it lists exactly the names of the
\* ingredients whose normalized name no lot of the user has (partial).
C9_Suggest ==
    (response.op = "suggest" /\ response.status = 200) =>
       LET out == response.suggestions.suggestions
           pantry == { r.name_norm : r \in { x \in food_stock :
                                               x.user_id = response.user_id } }
           mine == SelectSeq(recipes, LAMBDA r : /\ r.user_id = response.user_id
                                                 /\ IngredientsOf(r.id) # <<>>)
       IN  /\ Len(out) = Len(mine)
           /\ \A i \in 1..Len(mine) :
                LET ings == IngredientsOf(mine[i].id)
                    missing == SelectSeq(ings,
                                 LAMBDA g : normalize_name(g.name) \notin pantry)
                IN  IF missing = <<>>
                    THEN out[i] = [title |-> mine[i].title,
                                   description |-> mine[i].description,
                                   ingredients |-> DisplayNames(ings)]
                    ELSE out[i] = [title |-> mine[i].title,
                                   description |-> mine[i].description,
                                   missing_ingredients |-> DisplayNames(missing)]

\* C9 witness: the user has a recipe without ingredients and a recipe with two;
\* the pantry holds one of the two under another spelling, and the answer is
\* the single partial entry that names only the other ingredient.
C9_Witness ==
    /\ response.op = "suggest" /\ response.status = 200
    /\ Len(SelectSeq(recipes, LAMBDA r : r.user_id = response.user_id)) = 2
    /\ \E r \in 1..Len(recipes) : /\ recipes[r].user_id = response.user_id
                                 /\ IngredientsOf(recipes[r].id) = <<>>
    /\ \E r \in 1..Len(recipes) :
          /\ recipes[r].user_id = response.user_id
          /\ DisplayNames(IngredientsOf(recipes[r].id)) = << <<" ", "m">>, <<"e">> >>
    /\ \E x \in food_stock : x.user_id = response.user_id /\ x.name = <<"M">>
    /\ Len(response.suggestions.suggestions) = 1
    /\ "missing_ingredients" \in DOMAIN response.suggestions.suggestions[1]
    /\ response.suggestions.suggestions[1].missing_ingredients = << <<"e">> >>

(************************ interleaved requests ****************************)
BothDone == \A p \in Procs : procs[p].pc = "done"
BaseHasOneLotPerKey ==
    \A r1, r2 \in base.stock : KeyOf(r1) = KeyOf(r2) => r1 = r2

\* C2 (as claimed): when two concurrent adds of one user for one composite key
\* have both returned, the store holds exactly one lot of the key and its
\* quantity is the quantity before the two (0 without a lot) plus both reported
\* quantities.
C2_AddIsOneUnit ==
    ( /\ BothDone /\ BaseHasOneLotPerKey
      /\ \A p \in Procs : procs[p].op = "add"
      /\ procs[1].user_id = procs[2].user_id
      /\ normalize_name(procs[1].item.name) = normalize_name(procs[2].item.name)
      /\ procs[1].item.unit = procs[2].item.unit
      /\ procs[1].item.expiration_date = procs[2].item.expiration_date )
    => LET before == LotsOfKey(base.stock, procs[1].user_id, procs[1].item)
           prior == IF before = {} THEN 0 ELSE (CHOOSE r \in before : TRUE).quantity
           after == LotsOfKey(food_stock, procs[1].user_id, procs[1].item)
       IN  /\ Cardinality(after) = 1
           /\ \A r \in after :
                 r.quantity = prior + procs[1].item.quantity + procs[2].item.quantity

\* the stores one request, run alone as the sequential handler, can leave
AfterAlone(st, rq) ==
    CASE rq.op = "add" ->
           { LET w == add_write(st.stock, st.nid, existing, rq.user_id, rq.item)
             IN  [stock |-> w.stock, nid |-> w.nid] :
             existing \in find_existing_food_row(st.stock, rq.user_id, rq.item.name,
                                                 rq.item.unit, rq.item.expiration_date) }
      [] rq.op = "consume" ->
           LET item == get_food_item_detail(st.stock, rq.user_id, rq.item_id)
           IN  IF item = NoRow THEN {st}
               ELSE { [stock |-> consume_write(st.stock, item, rq.user_id, rq.item_id,
                                               rq.quantity).stock,
                       nid |-> st.nid] }
      [] rq.op = "delete" ->
           { [stock |-> DeleteRow(st.stock, rq.item_id, rq.user_id), nid |-> st.nid] }
      [] OTHER -> {st}

SerialStores(st, r1, r2) ==
    UNION { AfterAlone(s1, r2) : s1 \in AfterAlone(st, r1) }
      \cup UNION { AfterAlone(s2, r1) : s2 \in AfterAlone(st, r2) }

\* rq changes the quantity of lot: it consumes or deletes it, or adds to its key
Targets(rq, lot) ==
    /\ rq.user_id = lot.user_id
    /\ \/ rq.op \in {"consume", "delete"} /\ rq.item_id = lot.id
       \/ rq.op = "add" /\ lot \in LotsOfKey(base.stock, rq.user_id, rq.item)

\* C10 (as claimed): when a consume or delete-item and a concurrent add or
\* consume that target the same lot have both returned, the store is one that
\* running the two requests one after the other, in some order, produces.
C10_Serializable ==
    ( /\ BothDone /\ BaseHasOneLotPerKey
      /\ \E lot \in base.stock :
            /\ Targets(procs[1], lot) /\ Targets(procs[2], lot)
            /\ \E p \in Procs : procs[p].op \in {"consume", "delete"}
            /\ \E p \in Procs : procs[p].op \in {"consume", "add"} )
    => food_stock \in { s.stock : s \in SerialStores(base, procs[1], procs[2]) }
====
